---- MODULE Spec2Model ----
(***************************************************************************)
(* github-backup-action, src/src/main.ts: run() lists the organisation's   *)
(* repositories in pages (or takes one explicit repository), starts one    *)
(* backup() per page concurrently, waits for all of them with              *)
(* Promise.allSettled and reports the archive files and the failure count. *)
(* backup() starts a migration, polls its status every 30 s until it is    *)
(* `exported`, asks for the archive URL, downloads it with downloadFile()  *)
(* (retrying connection resets) and deletes the remote archive.            *)
(*                                                                         *)
(* One action is one run-to-completion step of the event loop: the code    *)
(* between two awaits.  A request is issued by the step that ends at its   *)
(* await; the step that follows is its response.                           *)
(***************************************************************************)
EXTENDS Integers, Sequences, FiniteSets

\* ---------------------------------------------------------------- bounds
\* Largest number of repositories the organisation has.
MaxRepos == 5
\* Largest page size drawn by the listing specification.
MaxPerPage == 3
\* Largest number of status queries one driver is allowed to make.
MaxPolls == 2

\* ------------------------------------------------------ program constants
\* downloadFile(url, filename, index, retries = 3)
retries == 3
\* setTimeout(resolve, 1000 * attempt)
BackoffUnit == 1000

\* Repository full names, in the provider's sort order (sort: 'full_name').
AllRepos == <<"a", "b", "c", "d", "e", "f", "g", "h">>
\* The explicit repository names the githubRepository input is drawn from;
\* '' is the input left empty.
ExplicitRepos == {"", "x"}
\* Page sizes the run specification draws for repositoriesPerJob: with up to
\* MaxRepos repositories they give runs of 0, 1 and 2 concurrent batches.
\* The listing specification draws every page size from 1 to MaxPerPage.
PageSizes == {3, 4}
\* The archive the provider serves, as the chunks the response streams.
Archive == <<"chunk1", "chunk2">>
\* The states a migration can report.
MigrationStates == {"pending", "exporting", "exported", "failed"}

VARIABLES
    githubRepository,   \* input githubRepository
    per_page,           \* parseInt(repositoriesPerJob)
    orgRepos,           \* the provider's repositories of the organisation
    runPc,              \* where run() is: init, listing, await, done, rejected
    page,               \* getOrganisationRepositories: page
    listRepoNames,      \* getOrganisationRepositories: repoNames
    listRequests,       \* number of listForOrg requests issued
    repoNames,          \* run: repoNames
    backupFiles,        \* run: backupFiles
    failures,           \* run: failures
    outputs,            \* setOutput('backupFiles', ...): <<>> unset, else <<list>>
    setFailedCalled,    \* setFailed(...) was called
    runError,           \* what run() rejected with: none, list, mkdir
    pc,                 \* backup #index: the await it is suspended at
    migration_id,       \* backup #index: migration_id
    state,              \* backup #index: state
    sleeps,             \* backup #index: number of sleep(30000) awaited
    requests,           \* backup #index: provider requests issued, by kind
    attempt,            \* downloadFile #index: attempt
    delays,             \* downloadFile #index: the backoff delays awaited
    file,               \* the file at `filename` of backup #index
    caught,             \* backup #index: the last error raised in it
    results,            \* the promise of backup #index
    settleOrder         \* the batch indices, in the order their promises settled

runVars == <<githubRepository, per_page, orgRepos, runPc, page, listRepoNames,
             listRequests, repoNames, backupFiles, failures, outputs,
             setFailedCalled, runError>>
driverVars == <<pc, migration_id, state, sleeps, requests, attempt, delays,
                file, caught, results, settleOrder>>
vars == <<runVars, driverVars>>

\* ------------------------------------------------------------- helpers
Min(a, b) == IF a < b THEN a ELSE b

Range(s) == {s[k] : k \in DOMAIN s}

RECURSIVE Flatten(_)
Flatten(ss) == IF ss = <<>> THEN <<>> ELSE Head(ss) \o Flatten(Tail(ss))

\* ceil(r / n) for n >= 1
Ceil(r, n) == (r + n - 1) \div n

\* The batch indices of a run: repoNames.map((repositories, index) => ...)
Indices(names) == 0 .. (Len(names) - 1)

\* `${directory}/github_${githubOrganization}_${index}_${timestamp}.tar.gz`:
\* within one run the directory and the organisation are fixed, so the path
\* is told apart by the batch index it embeds.
Filename(index) == <<"github", index, "tar.gz">>

\* The migration the provider creates for the start request of batch #index.
\* Identifiers are opaque; the provider gives every migration its own.
ProviderMigrationId(index) == 1000 + index

\* No file at the path yet.
NoFile == [exists |-> FALSE, data |-> <<>>]

\* No error raised yet.
NoError == [at |-> "none", code |-> "none"]

\* ------------------------------------------- run(): explicit repository
\* if (githubRepository && githubRepository !== '')
UseExplicitAlwaysList(repository) == FALSE
UseExplicit(repository) == repository # ""

\* --------------------------------------- getOrganisationRepositories()
\* octokit.rest.repos.listForOrg({org, type, per_page, sort, page}): the
\* provider serves the repositories in full-name order, per_page per page.
ListForOrg(repos, n, p) ==
    SubSeq(repos, (p - 1) * n + 1, Min(p * n, Len(repos)))

\* if (repos.data.length > 0) repoNames.push(repos.data.map(...))
PushPageAlways(names, data) == Append(names, data)
PushPage(names, data) == IF Len(data) > 0 THEN Append(names, data) ELSE names

\* fetchMore = repos.data.length >= per_page
FetchMore(len, n) == len >= n

\* ------------------------------------------------ run(): fan-out, fan-in
\* mkdirSync(directory); repoNames.map((repositories, index) => backup(...)):
\* every backup() runs up to its first await, the startForOrg request.
Launch(names) ==
    /\ repoNames' = names
    /\ runPc' = "await"
    /\ pc' = [i \in Indices(names) |-> "start"]
    /\ migration_id' = [i \in Indices(names) |-> 0]
    /\ state' = [i \in Indices(names) |-> ""]
    /\ sleeps' = [i \in Indices(names) |-> 0]
    /\ requests' = [i \in Indices(names) |->
                      [start |-> 1, status |-> 0, archive |-> 0, get |-> 0,
                       delete |-> 0]]
    /\ attempt' = [i \in Indices(names) |-> 0]
    /\ delays' = [i \in Indices(names) |-> <<>>]
    /\ file' = [i \in Indices(names) |-> NoFile]
    /\ caught' = [i \in Indices(names) |-> NoError]
    /\ results' = [i \in Indices(names) |->
                     [status |-> "pending", value |-> <<>>, attempts |-> 0]]
    /\ settleOrder' = <<>>

\* mkdirSync(directory) throws: run() rejects before any backup() is called.
MkdirThrows(names) ==
    /\ repoNames' = names
    /\ runPc' = "rejected"
    /\ runError' = "mkdir"
    /\ UNCHANGED driverVars

\* Lines 47-57 of run(), after repoNames is known.
Proceed(names) ==
    \/ Launch(names) /\ runError' = runError
    \/ MkdirThrows(names)

Init ==
    /\ githubRepository \in ExplicitRepos
    /\ per_page \in PageSizes
    /\ orgRepos \in {SubSeq(AllRepos, 1, r) : r \in 0 .. MaxRepos}
    /\ runPc = "init"
    /\ page = 1
    /\ listRepoNames = <<>>
    /\ listRequests = 0
    /\ repoNames = <<>>
    /\ backupFiles = <<>>
    /\ failures = 0
    /\ outputs = <<>>
    /\ setFailedCalled = FALSE
    /\ runError = "none"
    /\ pc = <<>>
    /\ migration_id = <<>>
    /\ state = <<>>
    /\ sleeps = <<>>
    /\ requests = <<>>
    /\ attempt = <<>>
    /\ delays = <<>>
    /\ file = <<>>
    /\ caught = <<>>
    /\ results = <<>>
    /\ settleOrder = <<>>

\* run() with an explicit repository: repoNames.push([githubRepository]).
RunExplicit ==
    /\ runPc = "init"
    /\ UseExplicit(githubRepository)
    /\ Proceed(<<<<githubRepository>>>>)
    /\ UNCHANGED <<githubRepository, per_page, orgRepos, page, listRepoNames,
                   listRequests, backupFiles, failures, outputs,
                   setFailedCalled>>

\* run() without one: getOrganisationRepositories() up to its first await,
\* the request for page 1 (page: page++).
RunList ==
    /\ runPc = "init"
    /\ ~UseExplicit(githubRepository)
    /\ runPc' = "listing"
    /\ listRepoNames' = <<>>
    /\ page' = page + 1
    /\ listRequests' = listRequests + 1
    /\ UNCHANGED <<githubRepository, per_page, orgRepos, repoNames,
                   backupFiles, failures, outputs, setFailedCalled, runError>>
    /\ UNCHANGED driverVars

\* A page arrives and is full: push it and request the next page.
ListPageMore ==
    /\ runPc = "listing"
    /\ LET data == ListForOrg(orgRepos, per_page, page - 1) IN
        /\ FetchMore(Len(data), per_page)
        /\ listRepoNames' = PushPage(listRepoNames, data)
        /\ page' = page + 1
        /\ listRequests' = listRequests + 1
    /\ UNCHANGED <<githubRepository, per_page, orgRepos, runPc, repoNames,
                   backupFiles, failures, outputs, setFailedCalled, runError>>
    /\ UNCHANGED driverVars

\* A page arrives and is short: push it if it is not empty, return to run(),
\* which goes on to the fan-out.
ListPageLast ==
    /\ runPc = "listing"
    /\ LET data == ListForOrg(orgRepos, per_page, page - 1) IN
        /\ ~FetchMore(Len(data), per_page)
        /\ listRepoNames' = PushPage(listRepoNames, data)
        /\ Proceed(listRepoNames')
    /\ UNCHANGED <<githubRepository, per_page, orgRepos, page, listRequests,
                   backupFiles, failures, outputs, setFailedCalled>>

ListErrorKeepsPages ==
    /\ runPc = "listing"
    /\ runError' = "list"
    /\ Launch(listRepoNames)
    /\ UNCHANGED <<githubRepository, per_page, orgRepos, page, listRepoNames,
                   listRequests, backupFiles, failures, outputs,
                   setFailedCalled>>

\* A page request fails: getOrganisationRepositories() rejects, and so does
\* run(), which has no handler; what was listed so far is dropped with the
\* function's frame.
ListError ==
    /\ runPc = "listing"
    /\ runPc' = "rejected"
    /\ runError' = "list"
    /\ UNCHANGED <<githubRepository, per_page, orgRepos, page, listRepoNames,
                   listRequests, repoNames, backupFiles, failures, outputs,
                   setFailedCalled>>
    /\ UNCHANGED driverVars

ListNext == RunList \/ ListPageMore \/ ListPageLast \/ ListError

\* ------------------------------------------------------------ backup()
\* What one step of backup #i leaves alone in run().
RunUnchanged == UNCHANGED runVars

\* backup #i rejects: the error propagates out of the async function.
Reject(i, at, code, attempts) ==
    /\ pc' = [pc EXCEPT ![i] = "Failed"]
    /\ caught' = [caught EXCEPT ![i] = [at |-> at, code |-> code]]
    /\ results' = [results EXCEPT ![i] =
                     [status |-> "rejected", value |-> <<>>,
                      attempts |-> attempts]]
    /\ settleOrder' = Append(settleOrder, i)

StartOkWhileLoop(i) ==
    /\ pc[i] = "start"
    /\ migration_id' = [migration_id EXCEPT ![i] = ProviderMigrationId(i)]
    /\ \E s \in MigrationStates :
        IF s = "exported"
          THEN /\ state' = [state EXCEPT ![i] = s]
               /\ requests' = [requests EXCEPT ![i].archive = @ + 1]
               /\ pc' = [pc EXCEPT ![i] = "archive"]
          ELSE /\ pc' = [pc EXCEPT ![i] = "sleep"]
               /\ UNCHANGED <<state, requests>>
    /\ UNCHANGED <<sleeps, attempt, delays, file, caught, results,
                   settleOrder>>
    /\ RunUnchanged

\* startForOrg answers: only data.id is taken from the response (its
\* data.state is not read), then the do-while body: await sleep(30000).
StartOk(i) ==
    /\ pc[i] = "start"
    /\ migration_id' = [migration_id EXCEPT ![i] = ProviderMigrationId(i)]
    /\ pc' = [pc EXCEPT ![i] = "sleep"]
    /\ UNCHANGED <<state, sleeps, requests, attempt, delays, file, caught,
                   results>>
    /\ UNCHANGED settleOrder
    /\ RunUnchanged

\* startForOrg fails.
StartError(i) ==
    /\ pc[i] = "start"
    /\ Reject(i, "start", "request", 0)
    /\ UNCHANGED <<migration_id, state, sleeps, requests, attempt, delays,
                   file>>
    /\ RunUnchanged

\* The 30 s timer fires: getStatusForOrg is requested.
SleepDone(i) ==
    /\ pc[i] = "sleep"
    /\ sleeps' = [sleeps EXCEPT ![i] = @ + 1]
    /\ requests' = [requests EXCEPT ![i].status = @ + 1]
    /\ pc' = [pc EXCEPT ![i] = "status"]
    /\ UNCHANGED <<migration_id, state, attempt, delays, file, caught,
                   results>>
    /\ UNCHANGED settleOrder
    /\ RunUnchanged

\* } while (state !== 'exported')
PollAgainOnlyPending(s) == s = "pending"
PollAgainUnlessFailed(s) == s \notin {"exported", "failed"}
PollAgain(s) == s # "exported"

\* getStatusForOrg answers with a state the loop goes round on: sleep again.
StatusPolling(i) ==
    /\ pc[i] = "status"
    /\ requests[i].status < MaxPolls
    /\ \E s \in MigrationStates :
        /\ PollAgain(s)
        /\ state' = [state EXCEPT ![i] = s]
    /\ pc' = [pc EXCEPT ![i] = "sleep"]
    /\ UNCHANGED <<migration_id, sleeps, requests, attempt, delays, file,
                   caught, results>>
    /\ UNCHANGED settleOrder
    /\ RunUnchanged

\* getStatusForOrg answers with a state that ends the loop:
\* downloadArchiveForOrg is requested.
StatusExported(i) ==
    /\ pc[i] = "status"
    /\ \E s \in MigrationStates :
        /\ ~PollAgain(s)
        /\ state' = [state EXCEPT ![i] = s]
    /\ requests' = [requests EXCEPT ![i].archive = @ + 1]
    /\ pc' = [pc EXCEPT ![i] = "archive"]
    /\ UNCHANGED <<migration_id, sleeps, attempt, delays, file, caught,
                   results>>
    /\ UNCHANGED settleOrder
    /\ RunUnchanged

\* getStatusForOrg fails: nothing catches it in backup().
StatusErrorRestarts(i) ==
    /\ pc[i] = "status"
    /\ caught' = [caught EXCEPT ![i] = [at |-> "status", code |-> "request"]]
    /\ requests' = [requests EXCEPT ![i].start = @ + 1]
    /\ pc' = [pc EXCEPT ![i] = "start"]
    /\ UNCHANGED <<migration_id, state, sleeps, attempt, delays, file,
                   results, settleOrder>>
    /\ RunUnchanged
StatusErrorPollsOn(i) ==
    /\ pc[i] = "status"
    /\ requests[i].status < MaxPolls
    /\ caught' = [caught EXCEPT ![i] = [at |-> "status", code |-> "request"]]
    /\ pc' = [pc EXCEPT ![i] = "sleep"]
    /\ UNCHANGED <<migration_id, state, sleeps, requests, attempt, delays,
                   file, results>>
    /\ UNCHANGED settleOrder
    /\ RunUnchanged
StatusError(i) ==
    /\ pc[i] = "status"
    /\ Reject(i, "status", "request", 0)
    /\ UNCHANGED <<migration_id, state, sleeps, requests, attempt, delays,
                   file>>
    /\ RunUnchanged

\* downloadArchiveForOrg answers: downloadFile() starts, attempt = 0, and
\* client.get(url) is requested.
ArchiveOk(i) ==
    /\ pc[i] = "archive"
    /\ attempt' = [attempt EXCEPT ![i] = 0]
    /\ requests' = [requests EXCEPT ![i].get = @ + 1]
    /\ pc' = [pc EXCEPT ![i] = "get"]
    /\ UNCHANGED <<migration_id, state, sleeps, delays, file, caught, results>>
    /\ UNCHANGED settleOrder
    /\ RunUnchanged

\* downloadArchiveForOrg fails.
ArchiveError(i) ==
    /\ pc[i] = "archive"
    /\ Reject(i, "archive", "request", 0)
    /\ UNCHANGED <<migration_id, state, sleeps, requests, attempt, delays,
                   file>>
    /\ RunUnchanged

\* -------------------------------------------------------- downloadFile()
\* The errors an attempt can end in: a connection reset, another I/O error,
\* and the Error thrown for a status other than 200 (which carries no code).
DownloadErrors == {"ECONNRESET", "EIO", "HTTP"}

\* createWriteStream(filename) opens with flag 'w': the file is created or
\* truncated, and the chunks piped before the stream ends are its content.
WriteStreamAppends(old, chunks) == [exists |-> TRUE, data |-> old.data \o chunks]
WriteStream(old, chunks) == [exists |-> TRUE, data |-> chunks]

\* What an attempt that threw leaves at `filename`: w = -1, the attempt did
\* not get to createWriteStream; else the first w chunks were written.
Written(old, w) ==
    IF w = -1 THEN old ELSE WriteStream(old, SubSeq(Archive, 1, w))

\* for (let attempt = 0; attempt <= retries; attempt++)
LoopContinues(a, r) == a <= r

\* if (error.code === 'ECONNRESET' && attempt < retries)
ShouldRetryOnceMore(code, a, r) == code = "ECONNRESET" /\ a <= r
ShouldRetryAnyError(code, a, r) == a < r
ShouldRetry(code, a, r) == code = "ECONNRESET" /\ a < r

\* The writes an error of this kind can follow: a status other than 200 is
\* thrown before createWriteStream.
WritesBefore(code) ==
    IF code = "HTTP" THEN {-1} ELSE -1 .. (Len(Archive) - 1)

\* Status 200 and the pipeline completes: downloadFile returns 'complete',
\* and backup() requests deleteArchiveForOrg.
GetComplete(i) ==
    /\ pc[i] = "get"
    /\ file' = [file EXCEPT ![i] = WriteStream(@, Archive)]
    /\ requests' = [requests EXCEPT ![i].delete = @ + 1]
    /\ pc' = [pc EXCEPT ![i] = "delete"]
    /\ UNCHANGED <<migration_id, state, sleeps, attempt, delays, caught,
                   results>>
    /\ UNCHANGED settleOrder
    /\ RunUnchanged

\* The attempt throws and the catch block retries: wait 1000 * attempt ms.
GetRetry(i) ==
    /\ pc[i] = "get"
    /\ \E code \in DownloadErrors, w \in -1 .. (Len(Archive) - 1) :
        /\ w \in WritesBefore(code)
        /\ ShouldRetry(code, attempt[i], retries)
        /\ file' = [file EXCEPT ![i] = Written(@, w)]
        /\ caught' = [caught EXCEPT ![i] = [at |-> "download", code |-> code]]
    /\ delays' = [delays EXCEPT ![i] = Append(@, BackoffUnit * attempt[i])]
    /\ pc' = [pc EXCEPT ![i] = "backoff"]
    /\ UNCHANGED <<migration_id, state, sleeps, requests, attempt, results>>
    /\ UNCHANGED settleOrder
    /\ RunUnchanged

\* The attempt throws and the catch block rethrows:
\* `Failed after ${attempt + 1} attempts`.
GetFatal(i) ==
    /\ pc[i] = "get"
    /\ \E code \in DownloadErrors, w \in -1 .. (Len(Archive) - 1) :
        /\ w \in WritesBefore(code)
        /\ ~ShouldRetry(code, attempt[i], retries)
        /\ file' = [file EXCEPT ![i] = Written(@, w)]
        /\ Reject(i, "download", code, attempt[i] + 1)
    /\ UNCHANGED <<migration_id, state, sleeps, requests, attempt, delays>>
    /\ RunUnchanged

\* The backoff timer fires: attempt++, and the loop issues the next
\* client.get(url), or falls out to `Exceeded maximum retries`.
BackoffDone(i) ==
    /\ pc[i] = "backoff"
    /\ attempt' = [attempt EXCEPT ![i] = @ + 1]
    /\ IF LoopContinues(attempt[i] + 1, retries)
         THEN /\ requests' = [requests EXCEPT ![i].get = @ + 1]
              /\ pc' = [pc EXCEPT ![i] = "get"]
              /\ UNCHANGED <<caught, results, settleOrder>>
         ELSE /\ Reject(i, "download", "exceeded", 0)
              /\ UNCHANGED requests
    /\ UNCHANGED <<migration_id, state, sleeps, delays, file>>
    /\ RunUnchanged

\* ---------------------------------------------------- backup(): cleanup
\* deleteArchiveForOrg answers: return filename.
DeleteOk(i) ==
    /\ pc[i] = "delete"
    /\ pc' = [pc EXCEPT ![i] = "Done"]
    /\ results' = [results EXCEPT ![i] =
                     [status |-> "fulfilled", value |-> Filename(i),
                      attempts |-> 0]]
    /\ settleOrder' = Append(settleOrder, i)
    /\ UNCHANGED <<migration_id, state, sleeps, requests, attempt, delays,
                   file, caught>>
    /\ RunUnchanged

\* deleteArchiveForOrg fails: nothing catches it in backup().
DeleteError(i) ==
    /\ pc[i] = "delete"
    /\ Reject(i, "delete", "request", 0)
    /\ UNCHANGED <<migration_id, state, sleeps, requests, attempt, delays,
                   file>>
    /\ RunUnchanged

\* ------------------------------------------------------ run(): fan-in
\* await Promise.allSettled(backups)
AllFulfilled(res) == \A i \in DOMAIN res : res[i].status = "fulfilled"
AnyRejectedOrAllFulfilled(res) ==
    \/ \E i \in DOMAIN res : res[i].status = "rejected"
    \/ \A i \in DOMAIN res : res[i].status = "fulfilled"
AllSettled(res) == \A i \in DOMAIN res : res[i].status # "pending"

\* for (const result of results) if (result.status === 'fulfilled')
\*     backupFiles.push(result.value)
FilesInSettleOrder(res, i) ==
    LET ok == SelectSeq(settleOrder, LAMBDA k : res[k].status = "fulfilled")
    IN  [n \in 1 .. Len(ok) |-> res[ok[n]].value]
RECURSIVE FilesFrom(_, _)
FilesFrom(res, i) ==
    IF i \notin DOMAIN res THEN <<>>
    ELSE (IF res[i].status = "fulfilled" THEN <<res[i].value>> ELSE <<>>)
         \o FilesFrom(res, i + 1)

\* else failures++
NoFailures(res) == 0
Failures(res) == Cardinality({i \in DOMAIN res : res[i].status # "fulfilled"})

\* if (failures > 0) setFailed(...)
SetFailedNever(n) == FALSE
SetFailed(n) == n > 0

\* Every backup has settled: the loop over the results, setOutput, setFailed.
Aggregate ==
    /\ runPc = "await"
    /\ AllSettled(results)
    /\ backupFiles' = backupFiles \o FilesFrom(results, 0)
    /\ failures' = failures + Failures(results)
    /\ outputs' = <<backupFiles'>>
    /\ setFailedCalled' = SetFailed(failures')
    /\ runPc' = "done"
    /\ UNCHANGED <<githubRepository, per_page, orgRepos, page, listRepoNames,
                   listRequests, repoNames, runError>>
    /\ UNCHANGED driverVars

Next ==
    \/ RunExplicit
    \/ RunList
    \/ ListPageMore
    \/ ListPageLast
    \/ ListError
    \/ \E i \in DOMAIN pc : StartOk(i)
    \/ \E i \in DOMAIN pc : StartError(i)
    \/ \E i \in DOMAIN pc : SleepDone(i)
    \/ \E i \in DOMAIN pc : StatusPolling(i)
    \/ \E i \in DOMAIN pc : StatusExported(i)
    \/ \E i \in DOMAIN pc : StatusError(i)
    \/ \E i \in DOMAIN pc : ArchiveOk(i)
    \/ \E i \in DOMAIN pc : ArchiveError(i)
    \/ \E i \in DOMAIN pc : GetComplete(i)
    \/ \E i \in DOMAIN pc : GetRetry(i)
    \/ \E i \in DOMAIN pc : GetFatal(i)
    \/ \E i \in DOMAIN pc : BackoffDone(i)
    \/ \E i \in DOMAIN pc : DeleteOk(i)
    \/ \E i \in DOMAIN pc : DeleteError(i)
    \/ Aggregate

Spec == Init /\ [][Next]_vars

\* The listing on its own, for every page size from 1.
InitList ==
    /\ githubRepository = ""
    /\ per_page \in 1 .. MaxPerPage
    /\ orgRepos \in {SubSeq(AllRepos, 1, r) : r \in 0 .. MaxRepos}
    /\ runPc = "init"
    /\ page = 1
    /\ listRepoNames = <<>>
    /\ listRequests = 0
    /\ repoNames = <<>>
    /\ backupFiles = <<>>
    /\ failures = 0
    /\ outputs = <<>>
    /\ setFailedCalled = FALSE
    /\ runError = "none"
    /\ pc = <<>>
    /\ migration_id = <<>>
    /\ state = <<>>
    /\ sleeps = <<>>
    /\ requests = <<>>
    /\ attempt = <<>>
    /\ delays = <<>>
    /\ file = <<>>
    /\ caught = <<>>
    /\ results = <<>>
    /\ settleOrder = <<>>

SpecList == InitList /\ [][ListNext]_vars

\* ================================================================ claims
\* One step of backup #i, whichever it is.
DriverStep(i) ==
    \/ StartOk(i) \/ StartError(i) \/ SleepDone(i) \/ StatusPolling(i)
    \/ StatusExported(i) \/ StatusError(i) \/ ArchiveOk(i) \/ ArchiveError(i)
    \/ GetComplete(i) \/ GetRetry(i) \/ GetFatal(i) \/ BackoffDone(i)
    \/ DeleteOk(i) \/ DeleteError(i)

Settled(i) == pc[i] \in {"Done", "Failed"}

\* C1: a batch's failure neither cancels nor blocks a sibling.  A batch is
\* Failed only by an error of its own; a batch that has not settled can take
\* its next step whatever state its siblings are in; run() rejects only
\* before any batch was launched; and when run() reports, every batch none
\* of whose provider calls failed is Done with its path in the file list.
C1_FailureIsolated ==
    /\ runPc = "rejected" => DOMAIN pc = {}
    /\ \A i \in DOMAIN pc :
        /\ pc[i] = "Failed" => caught[i] # NoError
        /\ ~Settled(i) => ENABLED DriverStep(i)
        /\ (runPc = "done" /\ caught[i] = NoError) =>
              /\ pc[i] = "Done"
              /\ Filename(i) \in Range(outputs[1])

\* C1 witness: run() has reported, one batch failed and a sibling none of
\* whose calls failed is Done.
C1_Witness ==
    /\ runPc = "done"
    /\ \E i, j \in DOMAIN pc :
        /\ pc[i] = "Failed"
        /\ pc[j] = "Done"
        /\ caught[j] = NoError

\* C2: when run() reports, every batch has settled, the file list is exactly
\* the paths of the batches that finished successfully, the failure count is
\* the number of failed batches, and the two add up to the number of batches.
C2_ReportedTally ==
    runPc = "done" =>
        /\ \A i \in DOMAIN pc : Settled(i)
        /\ Range(outputs[1]) = {Filename(i) : i \in {j \in DOMAIN pc : pc[j] = "Done"}}
        /\ failures = Cardinality({i \in DOMAIN pc : pc[i] = "Failed"})
        /\ Len(outputs[1]) + failures = Len(repoNames)

\* C2 witness: a report with one file and one failure.
C2_Witness ==
    /\ runPc = "done"
    /\ Len(outputs[1]) = 1
    /\ failures = 1

\* C3 (as claimed): a batch whose download succeeded and whose delete-archive
\* request failed is not rejected, and when run() reports, its path is in the
\* file list and setFailed is not called unless another batch failed
\* otherwise.
C3_CleanupNonFatal ==
    \A i \in DOMAIN pc :
        caught[i].at = "delete" =>
            /\ results[i].status # "rejected"
            /\ runPc = "done" =>
                /\ Filename(i) \in Range(outputs[1])
                /\ setFailedCalled =>
                      \E j \in DOMAIN pc :
                          pc[j] = "Failed" /\ caught[j].at # "delete"

\* C4 (as claimed): a status query that returned `failed` ends the polling:
\* the batch is Failed.
C4_FailedStateStopsPolling ==
    \A i \in DOMAIN pc : state[i] = "failed" => pc[i] = "Failed"

\* The connection resets downloadFile #i has met.
Resets(i) ==
    Len(delays[i])
    + (IF pc[i] = "Failed" /\ caught[i] = [at |-> "download", code |-> "ECONNRESET"]
       THEN 1 ELSE 0)

\* downloadFile #i returned 'complete'.
Downloaded(i) == requests[i].delete = 1

\* C5: downloadFile never issues more than retries + 1 requests; a download
\* that succeeds has made one request more than the resets before it (so
\* retries + 1 after retries resets); after retries + 1 resets the download
\* has failed with retries + 1 requests made, and the error names retries + 1
\* attempts.
C5_RetryBound ==
    \A i \in DOMAIN pc :
        /\ requests[i].get <= retries + 1
        /\ Resets(i) <= retries + 1
        /\ Downloaded(i) => requests[i].get = Resets(i) + 1
        /\ Resets(i) = retries + 1 =>
              /\ pc[i] = "Failed"
              /\ results[i].status = "rejected"
              /\ requests[i].get = retries + 1
              /\ results[i].attempts = retries + 1

\* C5 witness: one download succeeded after exactly `retries` resets, and
\* another failed after retries + 1 resets.
C5_Witness ==
    \E i, j \in DOMAIN pc :
        /\ Downloaded(i)
        /\ Resets(i) = retries
        /\ requests[i].get = retries + 1
        /\ Resets(j) = retries + 1
        /\ pc[j] = "Failed"

\* C6: an error of downloadFile that is not a connection reset (a status
\* other than 200 or another I/O error) fails the download at the attempt
\* where it occurs: the batch is Failed, no request was issued after that
\* attempt, and the attempts before it were all retried resets, so on the
\* first attempt exactly one request was made.
C6_FatalAtOnce ==
    \A i \in DOMAIN pc :
        (caught[i].at = "download" /\ caught[i].code # "ECONNRESET") =>
            /\ pc[i] = "Failed"
            /\ results[i].status = "rejected"
            /\ requests[i].get = attempt[i] + 1
            /\ results[i].attempts = attempt[i] + 1
            /\ Len(delays[i]) = attempt[i]
            /\ requests[i].delete = 0

\* C6 witness: a status other than 200 on the first attempt, and in a
\* sibling an I/O error on a later attempt with retries still left.
C6_Witness ==
    \E i, j \in DOMAIN pc :
        /\ caught[i] = [at |-> "download", code |-> "HTTP"]
        /\ requests[i].get = 1
        /\ pc[i] = "Failed"
        /\ caught[j] = [at |-> "download", code |-> "EIO"]
        /\ requests[j].get = 2
        /\ pc[j] = "Failed"

\* C7: getOrganisationRepositories returns ceil(R/N) batches, none empty,
\* each of at most N repositories, whose concatenation is the provider's
\* sequence; N = 2 and [a,b,c,d,e] give [[a,b],[c,d],[e]].
C7_Batching ==
    runPc = "await" =>
        /\ Len(repoNames) = Ceil(Len(orgRepos), per_page)
        /\ \A k \in DOMAIN repoNames :
              Len(repoNames[k]) >= 1 /\ Len(repoNames[k]) <= per_page
        /\ Flatten(repoNames) = orgRepos
        /\ (per_page = 2 /\ orgRepos = <<"a", "b", "c", "d", "e">>) =>
              repoNames = << <<"a", "b">>, <<"c", "d">>, <<"e">> >>

\* C7 witness: a listing returned for a repository count that is a multiple
\* of the page size, after the empty page that ends it.
C7_Witness ==
    /\ runPc = "await"
    /\ per_page = 2
    /\ Len(orgRepos) = 4
    /\ listRequests = 3
    /\ Len(repoNames) = 2

\* C8: with an explicit repository no list request is ever issued, and the
\* run has exactly one batch, holding exactly that repository, and one start
\* request.
C8_SingleRepository ==
    githubRepository # "" =>
        /\ listRequests = 0
        /\ runPc \in {"await", "done"} =>
              /\ repoNames = << <<githubRepository>> >>
              /\ DOMAIN pc = {0}
              /\ requests[0].start = 1

\* C8 witness: a run with an explicit repository has reported its file.
C8_Witness ==
    /\ githubRepository # ""
    /\ runPc = "done"
    /\ outputs = << <<Filename(0)>> >>

\* C9: when run() has reported, setFailed was called iff the failure count
\* is above 0, that is iff some batch failed, and the paths of the successful
\* batches are in the output either way; nothing is reported earlier.
C9_ResultSemantics ==
    /\ runPc # "done" => (~setFailedCalled /\ outputs = <<>>)
    /\ runPc = "done" =>
        /\ setFailedCalled <=> failures > 0
        /\ setFailedCalled <=> \E i \in DOMAIN pc : pc[i] = "Failed"
        /\ outputs = <<backupFiles>>
        /\ \A i \in DOMAIN pc :
              pc[i] = "Done" => Filename(i) \in Range(outputs[1])

\* C9 witness: a run reported as failed that still reports a file.
C9_Witness ==
    /\ runPc = "done"
    /\ setFailedCalled
    /\ Len(outputs[1]) = 1

\* C10: after a failed status query the batch is Failed and rejected, the
\* query was not repeated (as many queries as sleeps), no archive, download
\* or delete request was issued, no file was written and no path is
\* reported.
C10_StatusErrorFatal ==
    \A i \in DOMAIN pc :
        caught[i].at = "status" =>
            /\ pc[i] = "Failed"
            /\ results[i].status = "rejected"
            /\ requests[i].status = sleeps[i]
            /\ requests[i].archive = 0
            /\ requests[i].get = 0
            /\ requests[i].delete = 0
            /\ ~file[i].exists
            /\ runPc = "done" => Filename(i) \notin Range(outputs[1])

\* C10 witness: a status query failed after an earlier one had succeeded,
\* and run() has reported.
C10_Witness ==
    /\ runPc = "done"
    /\ \E i \in DOMAIN pc :
        /\ caught[i].at = "status"
        /\ requests[i].status = 2

\* C11: a batch issues exactly one start request, at most one archive-URL
\* and one delete request, and holds a migration no other batch holds; a
\* request that failed is never issued again, except the archive download
\* (a reset download is the only error that leaves the batch going), so a
\* failed batch is never started again.
C11_OneJobPerBatch ==
    \A i \in DOMAIN pc :
        /\ requests[i].start = 1
        /\ requests[i].archive <= 1
        /\ requests[i].delete <= 1
        /\ \A j \in DOMAIN pc :
              (i # j /\ migration_id[i] # 0) => migration_id[i] # migration_id[j]
        /\ (caught[i] # NoError /\ pc[i] # "Failed") =>
              caught[i] = [at |-> "download", code |-> "ECONNRESET"]
        /\ pc[i] = "Failed" => results[i].status = "rejected"

\* C11 witness: one batch is Done after a repeated download, its sibling
\* failed and stays failed, each with its one start request.
C11_Witness ==
    /\ runPc = "done"
    /\ \E i, j \in DOMAIN pc :
        /\ pc[i] = "Done"
        /\ requests[i].get >= 2
        /\ pc[j] = "Failed"
        /\ migration_id[j] # 0

\* C12: when a list-repositories request failed, run() is rejected with no
\* batches (what was fetched is not in repoNames), no backup was started and
\* nothing is reported.
C12_ListAllOrNothing ==
    runError = "list" =>
        /\ runPc = "rejected"
        /\ repoNames = <<>>
        /\ DOMAIN pc = {}
        /\ DOMAIN requests = {}
        /\ backupFiles = <<>>
        /\ outputs = <<>>

\* C12 witness: the list request failed after a full page had been fetched.
C12_Witness ==
    /\ runError = "list"
    /\ listRepoNames # <<>>
    /\ listRequests = 2

\* The driver states of the design, in their order; Failed last.
Rank(p) ==
    CASE p = "start" -> 0
      [] p \in {"sleep", "status"} -> 1
      [] p = "archive" -> 2
      [] p \in {"get", "backoff"} -> 3
      [] p = "delete" -> 4
      [] p = "Done" -> 5
      [] p = "Failed" -> 6

\* What the requests issued so far presuppose.
C13_Order ==
    \A i \in DOMAIN pc :
        /\ requests[i].status >= 1 => migration_id[i] # 0
        /\ requests[i].archive >= 1 =>
              (state[i] = "exported" /\ requests[i].status >= 1)
        /\ requests[i].get >= 1 =>
              (requests[i].archive = 1 /\ caught[i].at # "archive")
        /\ requests[i].delete >= 1 =>
              (requests[i].get >= 1 /\ file[i] = [exists |-> TRUE, data |-> Archive])
        /\ Rank(pc[i]) \in 2 .. 5 => requests[i].archive = 1
        /\ pc[i] = "Done" => requests[i].delete = 1

\* A step never moves a driver backwards, and moves no settled driver.
C13_Step ==
    \A i \in DOMAIN pc :
        i \in DOMAIN pc' =>
            /\ Rank(pc'[i]) >= Rank(pc[i])
            /\ pc[i] \in {"Done", "Failed"} =>
                  (pc'[i] = pc[i] /\ requests'[i] = requests[i])

\* C13: a driver moves only forward through start, polling, archive URL,
\* download, delete, Done; the archive URL is requested only after a status
\* of `exported`, the download only after the URL, the delete only after a
\* complete download; Done and Failed are left by no step and no request
\* follows them.
C13_ForwardOnly == []C13_Order /\ [][C13_Step]_vars

\* C13 witness: a driver is Done after two polls and a retried download.
C13_Witness ==
    \E i \in DOMAIN pc :
        /\ pc[i] = "Done"
        /\ requests[i].status = 2
        /\ requests[i].get >= 2

\* ------------------------------------------------------------- fairness
\* The indices a batch can have: there are no more batches than repositories.
BatchIndices == 0 .. (MaxRepos - 1)

\* A step of backup #i, if there is such a batch.
BatchStep(i) == i \in DOMAIN pc /\ DriverStep(i)

\* Every provider request is answered and every timer fires: a step of
\* run() or of a backup that stays possible is eventually taken.  (A status
\* query past MaxPolls is answered with `exported` or an error: every job
\* polled long enough reports `exported`.)
FairSpec ==
    /\ Init
    /\ [][Next]_vars
    /\ WF_vars(RunExplicit \/ ListNext)
    /\ WF_vars(Aggregate)
    /\ \A i \in BatchIndices : WF_vars(BatchStep(i))

\* C14: under fairness, once the batches are launched every driver settles
\* and run() reports; and no download issues more than retries + 1 requests.
C14_Terminates ==
    /\ (runPc = "await") ~> (runPc = "done" /\ \A i \in DOMAIN pc : Settled(i))
    /\ [](\A i \in DOMAIN pc : attempt[i] <= retries /\ Len(delays[i]) <= retries)

\* C14 witness: run() has reported after a driver polled to the limit and
\* downloaded with every retry used.
C14_Witness ==
    /\ runPc = "done"
    /\ \E i \in DOMAIN pc :
        /\ requests[i].status = MaxPolls
        /\ Len(delays[i]) = retries
        /\ pc[i] = "Done"

\* C15: a driver that was started, met no error and has not been answered
\* `exported` is still polling, however many queries it made, and as long as
\* it is, run() has reported neither outputs nor a result, whatever its
\* siblings have come to.
C15_PollsOn ==
    \A i \in DOMAIN pc :
        (migration_id[i] # 0 /\ caught[i] = NoError /\ state[i] # "exported") =>
            /\ pc[i] \in {"sleep", "status"}
            /\ requests[i].archive = 0
            /\ runPc = "await"
            /\ outputs = <<>>
            /\ ~setFailedCalled

\* C15 witness: a driver was last answered `failed` and sleeps before its
\* next query, its sibling has settled, and run() still waits.
C15_Witness ==
    \E i, j \in DOMAIN pc :
        /\ state[i] = "failed"
        /\ pc[i] = "sleep"
        /\ sleeps[i] >= 1
        /\ Settled(j)
        /\ runPc = "await"

\* The batch index a file path embeds.
IndexOf(path) == path[2]

\* C16: the reported file paths are in ascending order of batch index,
\* in whatever order the batches settled.
C16_IndexOrder ==
    runPc = "done" =>
        \A k, l \in DOMAIN outputs[1] :
            k < l => IndexOf(outputs[1][k]) < IndexOf(outputs[1][l])

\* C16 witness: batch 1 settled before batch 0, both succeeded, and the
\* report lists the path of batch 0 first.
C16_Witness ==
    /\ runPc = "done"
    /\ settleOrder = <<1, 0>>
    /\ outputs = << <<Filename(0), Filename(1)>> >>

\* C17 (as claimed): the delay before the k-th retry (after the k-th failed
\* attempt, k from 1) is 1000 ms * k, and the delays strictly increase.
C17_DelayPerAttemptNumber ==
    \A i \in DOMAIN pc :
        \A k \in DOMAIN delays[i] :
            /\ delays[i][k] = BackoffUnit * k
            /\ k > 1 => delays[i][k] > delays[i][k - 1]

\* A prefix of the archive.
IsPrefix(data) ==
    Len(data) <= Len(Archive) /\ data = SubSeq(Archive, 1, Len(data))

\* C18: the file holds what one attempt wrote and nothing of an earlier one:
\* always a prefix of the archive, and the whole archive once downloadFile
\* has succeeded, also after attempts that were reset mid-transfer.
C18_CompleteFile ==
    \A i \in DOMAIN pc :
        /\ IsPrefix(file[i].data)
        /\ Downloaded(i) => file[i] = [exists |-> TRUE, data |-> Archive]

\* C18 witness: a download succeeded at its last attempt, after resets.
C18_Witness ==
    \E i \in DOMAIN pc :
        /\ Downloaded(i)
        /\ Len(delays[i]) = retries
        /\ file[i].data = Archive

\* The run results are written only by the pass after all batches settled.
C19_Step ==
    (backupFiles' # backupFiles \/ failures' # failures \/ outputs' # outputs) =>
        /\ runPc = "await"
        /\ runPc' = "done"
        /\ \A i \in DOMAIN pc : Settled(i)
        /\ UNCHANGED driverVars

\* C19: backupFiles and failures are empty and 0 until run() reports, no step
\* of a backup changes them, and the one step that does is taken when every
\* batch has settled and changes nothing of any backup.
C19_ResultsFrame ==
    /\ [](runPc # "done" => (backupFiles = <<>> /\ failures = 0))
    /\ [][C19_Step]_vars

\* C19 witness: one batch has failed and another has succeeded, and run(),
\* not yet resumed, still has the results untouched.
C19_Witness ==
    /\ runPc = "await"
    /\ \E i, j \in DOMAIN pc : pc[i] = "Failed" /\ pc[j] = "Done"
    /\ backupFiles = <<>>
    /\ failures = 0

\* C20: as many status queries as 30 s sleeps; a driver that has requested
\* the archive URL, or is past it, has slept and queried at least once.
C20_PollsAtLeastOnce ==
    \A i \in DOMAIN pc :
        /\ requests[i].status = sleeps[i]
        /\ (requests[i].archive >= 1 \/ Rank(pc[i]) \in 2 .. 5) =>
              (sleeps[i] >= 1 /\ requests[i].status >= 1)

\* C20 witness: a batch is Done after exactly one sleep and one query.
C20_Witness ==
    \E i \in DOMAIN pc :
        /\ pc[i] = "Done"
        /\ sleeps[i] = 1
        /\ requests[i].status = 1

====
